---------------------------- MODULE Spec2Model ----------------------------
(***************************************************************************)
(* Model of internal/manifests/collector/parser/exporter/exporter.go:      *)
(* the exporter port-parser registry, the exporter authz-parser registry   *)
(* and the endpoint port extractor.                                         *)
(*                                                                         *)
(* Go strings are modelled as sequences of one-character strings so that   *)
(* the regular expression, strings.Replace, strconv.ParseInt and the       *)
(* component-type normalisation are computed character by character.       *)
(***************************************************************************)
EXTENDS Integers, Sequences, FiniteSets, TLC

VARIABLES
    registry,       \* var registry map[string]parser.Builder        (line 34)
    authzRegistry,  \* var authzRegistry map[string]AuthzBuilder     (line 137)
    last,           \* the most recent call: its operation, arguments and results
    calls,          \* builder invocations made by the most recent call
    logs            \* log entries emitted by the most recent call

vars == <<registry, authzRegistry, last, calls, logs>>

---------------------------------------------------------------------------
(* Values *)

\* Go's nil func value (a nil parser.Builder or AuthzBuilder)
Nil == "nil"

\* error values
NoErr == "no error"
ErrNoBuilders == "no builders for name"
ErrPortEmpty == "port should not be empty"
ErrRange == "strconv.ParseInt: value out of range"

\* var endpointKey = "endpoint"
endpointKey == "endpoint"

Digits == {"0", "1", "2", "3", "4", "5", "6", "7", "8", "9"}

DigitVal(c) ==
    CASE c = "0" -> 0 [] c = "1" -> 1 [] c = "2" -> 2 [] c = "3" -> 3
      [] c = "4" -> 4 [] c = "5" -> 5 [] c = "6" -> 6 [] c = "7" -> 7
      [] c = "8" -> 8 [] c = "9" -> 9

\* A Go map is a function whose DOMAIN is the set of keys present.
EmptyMap == [k \in {} |-> Nil]

\* m[k] = v  (insert or overwrite)
MapPut(m, k, v) == [x \in (DOMAIN m) \cup {k} |-> IF x = k THEN v ELSE m[x]]

\* v := m[k]  (the zero value, nil, when k is absent)
MapGet(m, k) == IF k \in DOMAIN m THEN m[k] ELSE Nil

\* _, ok := m[k]
MapHas(m, k) == k \in DOMAIN m

---------------------------------------------------------------------------
(* Inputs *)

\* exporter names handed to the registries: "otlp", "otlp/2", "kafka"
NameOtlp == <<"o", "t", "l", "p">>
NameOtlp2 == <<"o", "t", "l", "p", "/", "2">>
NameKafka == <<"k", "a", "f", "k", "a">>
Names == {NameOtlp, NameOtlp2, NameKafka}

\* parser.Builder values: two distinct functions and the nil func
Builders == {"b1", "b2", Nil}

\* AuthzBuilder values: a function and the nil func
AuthzBuilders == {"a1", Nil}

\* interface{} values of a decoded configuration tree
StringValue(s) == [type |-> "string", val |-> s]
IntValue(n) == [type |-> "int", val |-> n]
\* the nil interface value; also a nil parser instance and a nil *corev1.ServicePort
NilValue == [type |-> "nil", val |-> Nil]

\* configuration maps handed to the builders by For / AuthzFor
ConfigEmpty == EmptyMap
ConfigEndpoint == MapPut(EmptyMap, endpointKey, StringValue(<<"h", ":", "1">>))
ForConfigs == {ConfigEmpty, ConfigEndpoint}

---------------------------------------------------------------------------
(* parser.ComponentType and a builder's result: code outside this file *)

\* index of the first occurrence of c in s, 0 when there is none
IndexOf(s, c) ==
    LET hits == {i \in 1..Len(s) : s[i] = c} IN
    IF hits = {} THEN 0 ELSE CHOOSE i \in hits : \A j \in hits : i <= j

\* parser.ComponentType(name): the name with its "/"-qualifier stripped
ComponentType(name) ==
    LET i == IndexOf(name, "/") IN
    IF i # 0 THEN SubSeq(name, 1, i - 1) ELSE name

\* builder(logger, name, config): the parser instance a builder constructs;
\* opaque, determined by the builder and its arguments.
Invoke(builder, name, config) ==
    [builtBy |-> builder, name |-> name, config |-> config]

---------------------------------------------------------------------------
(* Component parser registry, lines 33-59 *)

\* func BuilderFor(name string) parser.Builder
BuilderFor(name) == MapGet(registry, ComponentType(name))

\* (mutant) the builder is handed the normalized name, not the caller's
ForNormalizedArg(name, config) ==
    LET builder == BuilderFor(name) IN
    IF builder = Nil
    THEN [parser |-> NilValue, err |-> ErrNoBuilders, calls |-> <<>>]
    ELSE [parser |-> Invoke(builder, ComponentType(name), config), err |-> NoErr,
          calls |-> <<[builder |-> builder, name |-> ComponentType(name),
                       config |-> config]>>]

\* func For(logger, name, config) (parser.ComponentPortParser, error)
For(name, config) ==
    LET builder == BuilderFor(name) IN
    IF builder = Nil
    THEN [parser |-> NilValue, err |-> ErrNoBuilders, calls |-> <<>>]
    ELSE [parser |-> Invoke(builder, name, config), err |-> NoErr,
          calls |-> <<[builder |-> builder, name |-> name, config |-> config]>>]

\* func IsRegistered(name string) bool
IsRegistered(name) == MapHas(registry, name)

\* (mutant) a name already registered keeps its first builder
RegisterKeepFirst(name, builder) ==
    /\ registry' = IF MapHas(registry, name) THEN registry
                   ELSE MapPut(registry, name, builder)
    /\ last' = [op |-> "Register", name |-> name, builder |-> builder,
                replaced |-> MapHas(registry, name) /\ registry[name] # builder]
    /\ calls' = <<>>
    /\ logs' = <<>>
    /\ UNCHANGED authzRegistry

\* (mutant) Register also writes an entry of the authz registry
RegisterBoth(name, builder) ==
    /\ registry' = MapPut(registry, name, builder)
    /\ authzRegistry' = MapPut(authzRegistry, name, Nil)
    /\ last' = [op |-> "Register", name |-> name, builder |-> builder,
                replaced |-> MapHas(registry, name) /\ registry[name] # builder]
    /\ calls' = <<>>
    /\ logs' = <<>>

\* func Register(name string, builder parser.Builder)
\* (last.replaced records whether the call overwrote a different builder)
Register(name, builder) ==
    /\ registry' = MapPut(registry, name, builder)
    /\ last' = [op |-> "Register", name |-> name, builder |-> builder,
                replaced |-> MapHas(registry, name) /\ registry[name] # builder]
    /\ calls' = <<>>
    /\ logs' = <<>>
    /\ UNCHANGED authzRegistry

\* a call of BuilderFor(name)
CallBuilderFor(name) ==
    /\ last' = [op |-> "BuilderFor", name |-> name, builder |-> BuilderFor(name)]
    /\ calls' = <<>>
    /\ logs' = <<>>
    /\ UNCHANGED <<registry, authzRegistry>>

\* a call of For(logger, name, config)
CallFor(name, config) ==
    LET r == For(name, config) IN
    /\ last' = [op |-> "For", name |-> name, config |-> config,
                parser |-> r.parser, err |-> r.err]
    /\ calls' = r.calls
    /\ logs' = <<>>
    /\ UNCHANGED <<registry, authzRegistry>>

\* a call of IsRegistered(name)
CallIsRegistered(name) ==
    /\ last' = [op |-> "IsRegistered", name |-> name, ok |-> IsRegistered(name)]
    /\ calls' = <<>>
    /\ logs' = <<>>
    /\ UNCHANGED <<registry, authzRegistry>>

---------------------------------------------------------------------------
(* Authorization parser registry, lines 136-156 *)

\* func AuthzBuilderFor(name string) AuthzBuilder
AuthzBuilderFor(name) == MapGet(authzRegistry, ComponentType(name))

\* func AuthzFor(logger, name, config) (AuthzParser, error)
AuthzFor(name, config) ==
    LET builder == AuthzBuilderFor(name) IN
    IF builder = Nil
    THEN [parser |-> NilValue, err |-> ErrNoBuilders, calls |-> <<>>]
    ELSE [parser |-> Invoke(builder, name, config), err |-> NoErr,
          calls |-> <<[builder |-> builder, name |-> name, config |-> config]>>]

\* func AuthzRegister(name string, builder AuthzBuilder)
AuthzRegister(name, builder) ==
    /\ authzRegistry' = MapPut(authzRegistry, name, builder)
    /\ last' = [op |-> "AuthzRegister", name |-> name, builder |-> builder,
                replaced |-> MapHas(authzRegistry, name)
                             /\ authzRegistry[name] # builder]
    /\ calls' = <<>>
    /\ logs' = <<>>
    /\ UNCHANGED registry

\* a call of AuthzBuilderFor(name)
CallAuthzBuilderFor(name) ==
    /\ last' = [op |-> "AuthzBuilderFor", name |-> name,
                builder |-> AuthzBuilderFor(name)]
    /\ calls' = <<>>
    /\ logs' = <<>>
    /\ UNCHANGED <<registry, authzRegistry>>

\* a call of AuthzFor(logger, name, config)
CallAuthzFor(name, config) ==
    LET r == AuthzFor(name, config) IN
    /\ last' = [op |-> "AuthzFor", name |-> name, config |-> config,
                parser |-> r.parser, err |-> r.err]
    /\ calls' = r.calls
    /\ logs' = <<>>
    /\ UNCHANGED <<registry, authzRegistry>>

---------------------------------------------------------------------------
(* The registries' specification *)

\* both package-level maps are made empty; nothing has been called
Init ==
    /\ registry = EmptyMap
    /\ authzRegistry = EmptyMap
    /\ last = [op |-> "init"]
    /\ calls = <<>>
    /\ logs = <<>>

Next ==
    \/ \E name \in Names, builder \in Builders : Register(name, builder)
    \/ \E name \in Names : CallBuilderFor(name)
    \/ \E name \in Names, config \in ForConfigs : CallFor(name, config)
    \/ \E name \in Names : CallIsRegistered(name)
    \/ \E name \in Names, builder \in AuthzBuilders : AuthzRegister(name, builder)
    \/ \E name \in Names : CallAuthzBuilderFor(name)
    \/ \E name \in Names, config \in ForConfigs : CallAuthzFor(name, config)

Spec == Init /\ [][Next]_vars

---------------------------------------------------------------------------
(* Port extractor, lines 61-117 *)

\* the largest value strconv.ParseInt accepts for bitSize 32
MaxInt32 == 2147483647

\* naming.PortName(name, port): code outside this file; a deterministic
\* function of its two arguments.
PortName(name, port) == [exporter |-> name, port |-> port]

\* the last index of the run of digits that starts at s[j]
RECURSIVE DigitRunEnd(_, _)
DigitRunEnd(s, j) ==
    IF j + 1 <= Len(s) /\ s[j + 1] \in Digits THEN DigitRunEnd(s, j + 1) ELSE j

\* regexp ":[0-9]+" anchored at s[i]: the last index of its (greedy) match,
\* 0 when it does not match there
MatchEndAt(s, i) ==
    IF i + 1 <= Len(s) /\ s[i] = ":" /\ s[i + 1] \in Digits
    THEN DigitRunEnd(s, i + 1)
    ELSE 0

\* r.MatchString(endpoint)
MatchString(s) == \E i \in 1..Len(s) : MatchEndAt(s, i) # 0

\* (mutant) the rightmost match instead of the leftmost
FindStringLast(s) ==
    IF ~MatchString(s) THEN <<>>
    ELSE LET i == CHOOSE k \in 1..Len(s) :
                      /\ MatchEndAt(s, k) # 0
                      /\ \A j \in (k + 1)..Len(s) : MatchEndAt(s, j) = 0
         IN SubSeq(s, i, MatchEndAt(s, i))

\* r.FindString(endpoint): the leftmost match, "" when there is none
FindString(s) ==
    IF ~MatchString(s) THEN <<>>
    ELSE LET i == CHOOSE k \in 1..Len(s) :
                      /\ MatchEndAt(s, k) # 0
                      /\ \A j \in 1..(k - 1) : MatchEndAt(s, j) = 0
         IN SubSeq(s, i, MatchEndAt(s, i))

\* strings.Replace(s, ":", "", -1)
StringsReplace(s) == SelectSeq(s, LAMBDA c : c # ":")

\* the value of the digits s[i..], continuing from acc; -1 once the value
\* exceeds MaxInt32
RECURSIVE ParseDigits(_, _, _)
ParseDigits(s, i, acc) ==
    IF i > Len(s) THEN acc
    ELSE LET d == DigitVal(s[i]) IN
         IF acc > (MaxInt32 - d) \div 10 THEN -1
         ELSE ParseDigits(s, i + 1, acc * 10 + d)

\* strconv.ParseInt(s, 10, 32) of an unsigned string
ParseInt(s) ==
    IF s = <<>> \/ \E i \in 1..Len(s) : s[i] \notin Digits
    THEN [val |-> 0, err |-> "strconv.ParseInt: invalid syntax"]
    ELSE LET v == ParseDigits(s, 1, 0) IN
         IF v = -1 THEN [val |-> MaxInt32, err |-> ErrRange]
         ELSE [val |-> v, err |-> NoErr]

\* (mutant) the check "port == 0" left out
portFromEndpointNoZeroCheck(endpoint) ==
    LET matched == MatchString(endpoint)
        parsed == IF matched
                  THEN ParseInt(StringsReplace(FindString(endpoint)))
                  ELSE [val |-> 0, err |-> NoErr]
    IN IF matched /\ parsed.err # NoErr THEN [port |-> 0, err |-> parsed.err]
       ELSE IF ~matched THEN [port |-> 0, err |-> ErrPortEmpty]
       ELSE [port |-> parsed.val, err |-> parsed.err]

\* func portFromEndpoint(endpoint string) (int32, error)
portFromEndpoint(endpoint) ==
    LET matched == MatchString(endpoint)
        parsed == IF matched
                  THEN ParseInt(StringsReplace(FindString(endpoint)))
                  ELSE [val |-> 0, err |-> NoErr]
    IN IF matched /\ parsed.err # NoErr THEN [port |-> 0, err |-> parsed.err]
       ELSE IF parsed.val = 0 THEN [port |-> 0, err |-> ErrPortEmpty]
       ELSE [port |-> parsed.val, err |-> parsed.err]

\* func getAddressFromConfig(logger, name, key, config) interface{}
getAddressFromConfig(name, key, config) ==
    IF ~MapHas(config, key)
    THEN [value |-> NilValue,
          logs |-> <<[level |-> "V(2).Info", msg |-> "exporter doesn't have an",
                      name |-> name, key |-> key]>>]
    ELSE [value |-> config[key], logs |-> <<>>]

\* (mutant) the parse error is logged but the descriptor is still returned
singlePortIgnoringErr(name, config) ==
    LET a == getAddressFromConfig(name, endpointKey, config)
        endpoint == a.value
    IN CASE endpoint.type = "nil" -> [ret |-> NilValue, logs |-> a.logs]
         [] endpoint.type = "string" ->
              LET p == portFromEndpoint(endpoint.val) IN
              [ret |-> [Name |-> PortName(name, p.port), Port |-> p.port],
               logs |-> IF p.err # NoErr
                        THEN Append(a.logs,
                                 [level |-> "Error",
                                  msg |-> "couldn't parse the endpoint's port",
                                  err |-> p.err, endpoint |-> endpoint])
                        ELSE a.logs]
         [] OTHER ->
              [ret |-> NilValue,
               logs |-> Append(a.logs,
                   [level |-> "Error",
                    msg |-> "exporter's endpoint isn't a string",
                    err |-> <<"unrecognized type", endpoint.type>>,
                    endpoint |-> endpoint])]

\* func singlePortFromConfigEndpoint(logger, name, config) *corev1.ServicePort
singlePortFromConfigEndpoint(name, config) ==
    LET a == getAddressFromConfig(name, endpointKey, config)
        endpoint == a.value
    IN CASE endpoint.type = "nil" -> [ret |-> NilValue, logs |-> a.logs]
         [] endpoint.type = "string" ->
              LET p == portFromEndpoint(endpoint.val) IN
              IF p.err # NoErr
              THEN [ret |-> NilValue,
                    logs |-> Append(a.logs,
                        [level |-> "Error",
                         msg |-> "couldn't parse the endpoint's port",
                         err |-> p.err, endpoint |-> endpoint])]
              ELSE [ret |-> [Name |-> PortName(name, p.port), Port |-> p.port],
                    logs |-> a.logs]
         [] OTHER ->
              [ret |-> NilValue,
               logs |-> Append(a.logs,
                   [level |-> "Error",
                    msg |-> "exporter's endpoint isn't a string",
                    err |-> <<"unrecognized type", endpoint.type>>,
                    endpoint |-> endpoint])]

---------------------------------------------------------------------------
(* The port extractor's specification: the functions above read and write  *)
(* neither registry, so they are applied to inputs drawn by InitPort.      *)

\* the number of pieces an endpoint string is put together from
MaxAtoms == 4

\* pieces of endpoint strings: a host character, the colon, digit runs
\* around the limits of a port and of a signed 32-bit integer
Atoms ==
    { <<"h">>, <<":">>, <<"0">>,
      <<"4", "3", "1", "7">>,
      <<"6", "5", "5", "3", "5">>,
      <<"7", "0", "0", "0", "0">>,
      <<"2", "1", "4", "7", "4", "8", "3", "6", "4", "7">>,
      <<"2", "1", "4", "7", "4", "8", "3", "6", "4", "8">> }

RECURSIVE Concat(_)
Concat(ss) == IF ss = <<>> THEN <<>> ELSE Head(ss) \o Concat(Tail(ss))

Endpoints == {Concat(a) : a \in UNION {[1..n -> Atoms] : n \in 0..MaxAtoms}}

\* configuration maps: no "endpoint" key, a nil, a number or a string under it
PortConfigs ==
    {EmptyMap, MapPut(EmptyMap, "other", StringValue(<<":", "0">>))}
    \cup {MapPut(EmptyMap, endpointKey, v) :
            v \in {NilValue, IntValue(4317)} \cup {StringValue(e) : e \in Endpoints}}

PortNames == {NameOtlp, NameOtlp2}

InitPort ==
    /\ registry = EmptyMap
    /\ authzRegistry = EmptyMap
    /\ \E name \in PortNames, config \in PortConfigs :
           last = [op |-> "pending", name |-> name, config |-> config]
    /\ calls = <<>>
    /\ logs = <<>>

\* a call of portFromEndpoint on the pending configuration's endpoint string
CallPortFromEndpoint ==
    /\ last.op = "pending"
    /\ MapHas(last.config, endpointKey)
    /\ last.config[endpointKey].type = "string"
    /\ LET e == last.config[endpointKey].val
           r == portFromEndpoint(e)
       IN last' = [op |-> "portFromEndpoint", endpoint |-> e,
                   port |-> r.port, err |-> r.err]
    /\ logs' = <<>>
    /\ UNCHANGED <<registry, authzRegistry, calls>>

\* a call of getAddressFromConfig(logger, name, key, config)
CallGetAddressFromConfig(key) ==
    /\ last.op = "pending"
    /\ LET r == getAddressFromConfig(last.name, key, last.config)
       IN /\ last' = [op |-> "getAddressFromConfig", name |-> last.name,
                      key |-> key, config |-> last.config, value |-> r.value]
          /\ logs' = r.logs
    /\ UNCHANGED <<registry, authzRegistry, calls>>

\* a call of singlePortFromConfigEndpoint(logger, name, config)
CallSinglePortFromConfigEndpoint ==
    /\ last.op = "pending"
    /\ LET r == singlePortFromConfigEndpoint(last.name, last.config)
       IN /\ last' = [op |-> "singlePortFromConfigEndpoint", name |-> last.name,
                      config |-> last.config, ret |-> r.ret]
          /\ logs' = r.logs
    /\ UNCHANGED <<registry, authzRegistry, calls>>

NextPort ==
    \/ CallPortFromEndpoint
    \/ \E key \in {endpointKey, "other"} : CallGetAddressFromConfig(key)
    \/ CallSinglePortFromConfigEndpoint

SpecPort == InitPort /\ [][NextPort]_vars

---------------------------------------------------------------------------
(* Properties of the registries, checked under Spec *)

\* C1: registration round-trip. For every (typeName, builder) entry that
\* Register left in the registry, BuilderFor(typeName) returns that builder,
\* also for a "/"-qualified typeName such as "otlp/2".
C1_RegistrationRoundTrip ==
    \A name \in DOMAIN registry : BuilderFor(name) = registry[name]

\* C3: when the normalized component type of the name has no entry,
\* BuilderFor returns nil and For returns the "no builders" error, no parser
\* and invokes no builder; when BuilderFor returns a builder, For invokes it
\* exactly once with the caller's name and config and returns its result with
\* no error. The same for AuthzBuilderFor / AuthzFor.
C3_ForFollowsBuilderFor ==
    /\ last.op \in {"For", "AuthzFor"} =>
         LET table == IF last.op = "For" THEN registry ELSE authzRegistry
             key == ComponentType(last.name)
             builder == MapGet(table, key)
         IN /\ ~MapHas(table, key) =>
                  /\ builder = Nil
                  /\ last.err = ErrNoBuilders
                  /\ last.parser = NilValue
                  /\ calls = <<>>
            /\ builder # Nil =>
                  /\ calls = <<[builder |-> builder, name |-> last.name,
                                config |-> last.config]>>
                  /\ last.parser = Invoke(builder, last.name, last.config)
                  /\ last.err = NoErr
    /\ last.op = "BuilderFor" /\ ~MapHas(registry, ComponentType(last.name))
         => last.builder = Nil
    /\ last.op = "AuthzBuilderFor"
         /\ ~MapHas(authzRegistry, ComponentType(last.name))
         => last.builder = Nil

\* For resolved the qualified name "otlp/2" and invoked the builder once
C3_Witness ==
    /\ last.op = "For"
    /\ last.name = NameOtlp2
    /\ last.config = ConfigEndpoint
    /\ last.err = NoErr
    /\ Len(calls) = 1
    /\ ~MapHas(registry, NameKafka)

\* C8: last registration wins. A Register call leaves its builder stored
\* under exactly its typeName, replacing any previous one, and leaves the
\* entry of every other typeName as it was; the same for AuthzRegister on
\* the authz registry.
C8_LastRegistrationWins ==
    [][ /\ last'.op = "Register" =>
              /\ MapHas(registry', last'.name)
              /\ registry'[last'.name] = last'.builder
              /\ DOMAIN registry' = (DOMAIN registry) \cup {last'.name}
              /\ \A n \in (DOMAIN registry) \ {last'.name} :
                     registry'[n] = registry[n]
        /\ last'.op = "AuthzRegister" =>
              /\ MapHas(authzRegistry', last'.name)
              /\ authzRegistry'[last'.name] = last'.builder
              /\ DOMAIN authzRegistry' = (DOMAIN authzRegistry) \cup {last'.name}
              /\ \A n \in (DOMAIN authzRegistry) \ {last'.name} :
                     authzRegistry'[n] = authzRegistry[n]
      ]_vars

\* a Register call has just replaced a different builder while another
\* typeName was registered too
C8_Witness ==
    /\ last.op = "Register"
    /\ last.replaced
    /\ last.name = NameOtlp
    /\ registry[NameOtlp] = "b2"
    /\ MapHas(registry, NameOtlp2)

\* C9: the two registries are independent tables. AuthzRegister leaves the
\* port registry (and so BuilderFor, For and IsRegistered for every name) as
\* it was, Register leaves the authz registry (AuthzBuilderFor, AuthzFor) as
\* it was, and BuilderFor, IsRegistered and AuthzBuilderFor change neither.
C9_RegistriesIndependent ==
    [][ /\ last'.op = "AuthzRegister" =>
              /\ registry' = registry
              /\ \A n \in Names :
                     /\ BuilderFor(n)' = BuilderFor(n)
                     /\ IsRegistered(n)' = IsRegistered(n)
                     /\ \A c \in ForConfigs : For(n, c)' = For(n, c)
        /\ last'.op = "Register" =>
              /\ authzRegistry' = authzRegistry
              /\ \A n \in Names :
                     /\ AuthzBuilderFor(n)' = AuthzBuilderFor(n)
                     /\ \A c \in ForConfigs : AuthzFor(n, c)' = AuthzFor(n, c)
        /\ last'.op \in {"BuilderFor", "IsRegistered", "AuthzBuilderFor"} =>
              /\ registry' = registry
              /\ authzRegistry' = authzRegistry
      ]_vars

\* after an AuthzRegister call: "otlp" is in the authz registry only,
\* "kafka" in both, "otlp/2" in neither
C9_Witness ==
    /\ last.op = "AuthzRegister"
    /\ MapHas(authzRegistry, NameOtlp) /\ ~MapHas(registry, NameOtlp)
    /\ MapHas(authzRegistry, NameKafka) /\ MapHas(registry, NameKafka)
    /\ ~MapHas(authzRegistry, NameOtlp2) /\ ~MapHas(registry, NameOtlp2)

\* C10: the existence check agrees with the lookup. For every name,
\* IsRegistered(name) holds exactly when BuilderFor(name) returns a builder,
\* and so exactly when For succeeds, also for qualified names and when a nil
\* builder was registered.
C10_ExistenceAgreesWithLookup ==
    /\ \A n \in Names : IsRegistered(n) <=> BuilderFor(n) # Nil
    /\ last.op = "For" => (last.err = NoErr <=> IsRegistered(last.name))

---------------------------------------------------------------------------
(* Properties of the port extractor, checked under SpecPort *)

\* the positions where a colon-digit run starts
RunStarts(e) == {i \in 1..(Len(e) - 1) : e[i] = ":" /\ e[i + 1] \in Digits}

\* the first position, scanning left to right
FirstRunStart(e) == CHOOSE i \in RunStarts(e) : \A j \in RunStarts(e) : i <= j

\* the last digit of the run that starts at position i
RunEnd(e, i) ==
    CHOOSE k \in (i + 1)..Len(e) :
        /\ \A m \in (i + 1)..k : e[m] \in Digits
        /\ (k = Len(e) \/ e[k + 1] \notin Digits)

\* the digits of the first colon-digit run
FirstRunDigits(e) == SubSeq(e, FirstRunStart(e) + 1, RunEnd(e, FirstRunStart(e)))

AllZero(d) == \A i \in 1..Len(d) : d[i] = "0"

\* d without its leading zeros
StripZeros(d) ==
    IF AllZero(d) THEN <<>>
    ELSE SubSeq(d, CHOOSE i \in 1..Len(d) :
                       d[i] # "0" /\ \A j \in 1..(i - 1) : d[j] = "0", Len(d))

\* a <= b for digit strings of the same length
DigitsLeq(a, b) ==
    \/ a = b
    \/ \E i \in 1..Len(a) :
           /\ DigitVal(a[i]) < DigitVal(b[i])
           /\ \A j \in 1..(i - 1) : a[j] = b[j]

\* the digit run denotes a number a signed 32-bit integer holds
FitsInt32(d) ==
    LET z == StripZeros(d) IN
    \/ Len(z) < 10
    \/ Len(z) = 10
         /\ DigitsLeq(z, <<"2", "1", "4", "7", "4", "8", "3", "6", "4", "7">>)

\* the number a digit string that fits denotes
RECURSIVE DecimalValue(_)
DecimalValue(d) ==
    IF d = <<>> THEN 0
    ELSE DecimalValue(SubSeq(d, 1, Len(d) - 1)) * 10 + DigitVal(d[Len(d)])

ErrorLogs == {i \in 1..Len(logs) : logs[i].level = "Error"}
DiagnosticLogs == {i \in 1..Len(logs) : logs[i].level = "V(2).Info"}

\* C2: every descriptor singlePortFromConfigEndpoint returns has its port in
\* [1, 65535]; "host:70000" must not yield a descriptor with port 70000.
C2_PortInRange ==
    last.op = "singlePortFromConfigEndpoint" /\ last.ret # NilValue
        => last.ret.Port \in 1..65535

\* C4: graceful degradation. singlePortFromConfigEndpoint returns either
\* nothing or a descriptor, never an error; a descriptor exactly when
\* "endpoint" holds a string portFromEndpoint parses, with the parsed port and
\* the name PortName(exporterName, port); nothing for an absent endpoint, a
\* non-string, a string with no port, a zero port or a digit run beyond 32
\* bits.
C4_GracefulDegradation ==
    last.op = "singlePortFromConfigEndpoint" =>
        LET c == last.config
            present == MapHas(c, endpointKey)
            isString == present /\ c[endpointKey].type = "string"
            e == c[endpointKey].val
        IN /\ last.ret # NilValue <=> (isString /\ portFromEndpoint(e).err = NoErr)
           /\ last.ret # NilValue =>
                 /\ last.ret.Port = portFromEndpoint(e).port
                 /\ last.ret.Name = PortName(last.name, last.ret.Port)
                 /\ DOMAIN last.ret = {"Name", "Port"}
           /\ ~present => last.ret = NilValue
           /\ present /\ ~isString => last.ret = NilValue
           /\ isString /\ RunStarts(e) = {} => last.ret = NilValue
           /\ isString /\ RunStarts(e) # {} /\ AllZero(FirstRunDigits(e))
                 => last.ret = NilValue
           /\ isString /\ RunStarts(e) # {} /\ ~FitsInt32(FirstRunDigits(e))
                 => last.ret = NilValue

\* a descriptor was returned for "h:4317"
C4_Witness ==
    /\ last.op = "singlePortFromConfigEndpoint"
    /\ MapHas(last.config, endpointKey)
    /\ last.config[endpointKey] = StringValue(<<"h", ":", "4", "3", "1", "7">>)
    /\ last.ret # NilValue
    /\ last.ret.Port = 4317

\* C5: with more than one colon-digit run, portFromEndpoint takes the port
\* from the first run of a left-to-right scan: its result is that for the
\* string truncated after the first run.
C5_FirstRunWins ==
    last.op = "portFromEndpoint" /\ Cardinality(RunStarts(last.endpoint)) > 1 =>
        LET e == last.endpoint
            truncated == SubSeq(e, 1, RunEnd(e, FirstRunStart(e)))
            d == FirstRunDigits(e)
        IN /\ [port |-> last.port, err |-> last.err] = portFromEndpoint(truncated)
           /\ last.err = NoErr => last.port = DecimalValue(d)
           /\ last.err = ErrPortEmpty => AllZero(d)

\* portFromEndpoint was applied to ":4317:70000" and gave 4317
C5_Witness ==
    /\ last.op = "portFromEndpoint"
    /\ last.endpoint = <<":", "4", "3", "1", "7", ":", "7", "0", "0", "0", "0">>
    /\ last.port = 4317
    /\ last.err = NoErr

\* C6: portFromEndpoint returns "port should not be empty" (and port 0)
\* exactly when the string has no colon-digit run or the extracted run has
\* the value zero; otherwise, when the run fits 32 bits, it returns the run's
\* value, at least 1, and no error.
C6_PortShouldNotBeEmpty ==
    last.op = "portFromEndpoint" =>
        LET e == last.endpoint
            none == RunStarts(e) = {}
        IN /\ last.err = ErrPortEmpty <=> (none \/ AllZero(FirstRunDigits(e)))
           /\ last.err = ErrPortEmpty => last.port = 0
           /\ ~none /\ ~AllZero(FirstRunDigits(e)) /\ FitsInt32(FirstRunDigits(e))
                 => /\ last.err = NoErr
                    /\ last.port = DecimalValue(FirstRunDigits(e))
                    /\ last.port >= 1

\* portFromEndpoint was applied to "h:00" and refused the zero port
C6_Witness ==
    /\ last.op = "portFromEndpoint"
    /\ last.endpoint = <<"h", ":", "0", "0">>
    /\ last.err = ErrPortEmpty
    /\ last.port = 0

\* C7: log classification of singlePortFromConfigEndpoint. No "endpoint"
\* key: one diagnostic entry and no error entry. "endpoint" present but not
\* a string, or a string with no valid port: exactly one error entry. A
\* descriptor returned: no error entry.
C7_LogClassification ==
    last.op = "singlePortFromConfigEndpoint" =>
        LET c == last.config
            present == MapHas(c, endpointKey)
            isString == present /\ c[endpointKey].type = "string"
        IN /\ ~present =>
                 Cardinality(DiagnosticLogs) = 1 /\ Cardinality(ErrorLogs) = 0
           /\ present /\ ~isString => Cardinality(ErrorLogs) = 1
           /\ isString /\ portFromEndpoint(c[endpointKey].val).err # NoErr
                 => Cardinality(ErrorLogs) = 1
           /\ last.ret # NilValue => Cardinality(ErrorLogs) = 0

===========================================================================
